---- MODULE Spec2Model ----
(***************************************************************************)
(* Model of the IPSec policy resource adapter                              *)
(* (ibm/resource_ibm_pi_ipsec_policy.go).                                  *)
(*                                                                         *)
(* The state is the schema.ResourceData `d` the handlers work on (its ID   *)
(* and its attributes), the record of the last handler invocation and the  *)
(* requests that invocation issued to the remote API.  The remote API is   *)
(* an environment: every response (outcome and returned policy) is an      *)
(* input of the handler, drawn from a small set.                           *)
(*                                                                         *)
(* Identifiers are sequences of one-character strings, so that composing   *)
(* the resource ID and splitting it again are real operations.             *)
(***************************************************************************)
EXTENDS Integers, Sequences, FiniteSets, TLC

VARIABLES id, attrs, last, calls, created, allOK

vars == <<id, attrs, last, calls, created, allOK>>

----------------------------------------------------------------------------
(* Bounds *)

NumClouds == 2
NumPolicyIds == 2

----------------------------------------------------------------------------
(* Values *)

Sep == "/"

CloudChars == <<"a", "b", "c", "d">>
PolicyChars == <<"x", "y", "z", "w">>

\* cloud instance IDs and policy IDs are issued by the service; none holds
\* the separator
Clouds == {<<CloudChars[i]>> : i \in 1..NumClouds}
PolicyIds == {<<PolicyChars[i]>> : i \in 1..NumPolicyIds}

\* IDs a user can hand to import: without a separator, and with one part
\* more than the two the handlers read
ImportIds == {<<"a", "x">>, <<"b", Sep, "y", Sep, "x">>}

EmptyId == <<>>

PolicyFields == {"name", "dh_group", "encryption", "key_lifetime", "pfs", "authentication"}

\* two valid values per attribute, taken from the schema's validators
BaseValues == [name |-> "p1", dh_group |-> 1, encryption |-> "3des-cbc",
               key_lifetime |-> 180, pfs |-> FALSE, authentication |-> "none"]
AltValues == [name |-> "p2", dh_group |-> 2, encryption |-> "aes-128-cbc",
              key_lifetime |-> 86400, pfs |-> TRUE, authentication |-> "hmac-md5-96"]

\* the value sets a configuration takes: the base, and the base with one
\* attribute changed
Flips == {{}} \cup {{k} : k \in PolicyFields}

Mix(S) == [k \in PolicyFields |-> IF k \in S THEN AltValues[k] ELSE BaseValues[k]]

PolicyValues == {Mix(S) : S \in Flips}

\* a configuration: authentication is optional (<<>> when not configured)
AuthChoices(p) ==
    {<<p.authentication>>} \cup (IF p = BaseValues THEN {<<>>} ELSE {})

Config(c, p, a) ==
    [cloud_instance_id |-> c, name |-> p.name, dh_group |-> p.dh_group,
     encryption |-> p.encryption, key_lifetime |-> p.key_lifetime,
     pfs |-> p.pfs, authentication |-> a]

\* every value set under the first cloud instance, the base under the others
Configs ==
    UNION {{Config(<<CloudChars[1]>>, p, a) : a \in AuthChoices(p)} : p \in PolicyValues}
    \cup {Config(c, BaseValues, <<BaseValues.authentication>>) : c \in Clouds}

ZeroConfig == [cloud_instance_id |-> EmptyId, name |-> "", dh_group |-> 0,
               encryption |-> "", key_lifetime |-> 0, pfs |-> FALSE,
               authentication |-> <<>>]

\* models.IPSecPolicy as the remote returns it
ZeroPolicy == [id |-> EmptyId, name |-> "", dh_group |-> 0, encryption |-> "",
               key_lifetime |-> 0, pfs |-> FALSE, authentication |-> ""]

RemotePolicy(i, p) ==
    [id |-> i, name |-> p.name, dh_group |-> p.dh_group,
     encryption |-> p.encryption, key_lifetime |-> p.key_lifetime,
     pfs |-> p.pfs, authentication |-> p.authentication]

\* the policies a get can return: one per policy ID, base and changed values
\* in turn
RemotePolicies ==
    {RemotePolicy(<<PolicyChars[i]>>, IF i % 2 = 1 THEN BaseValues ELSE AltValues)
       : i \in 1..NumPolicyIds}

\* outcome of one remote call
Outcomes == {"ok", "notfound", "error"}

\* the response of the remote create: only its ID is read
CreateResponses ==
    {[outcome |-> "error", policy |-> ZeroPolicy]}
    \cup {[outcome |-> "ok", policy |-> [ZeroPolicy EXCEPT !.id = i]] : i \in PolicyIds}

GetResponses ==
    {[outcome |-> o, policy |-> ZeroPolicy] : o \in {"notfound", "error"}}
    \cup {[outcome |-> "ok", policy |-> p] : p \in RemotePolicies}

\* the remote update and delete: only the error is read
PlainResponses == {[outcome |-> o, policy |-> ZeroPolicy] : o \in Outcomes}

\* the responses to draw from for a call: none when the call is not issued
NoResponse == [outcome |-> "unsent", policy |-> ZeroPolicy]

ResponsesIf(issued, S) == IF issued THEN S ELSE {NoResponse}

\* the provider meta: IBMPISession() returns its stored session or error
Metas == {[sessOK |-> TRUE], [sessOK |-> FALSE]}

\* the attributes of the schema, empty
ZeroAttrs == [cloud_instance_id |-> EmptyId, name |-> "", dh_group |-> 0,
              encryption |-> "", key_lifetime |-> 0, pfs |-> FALSE,
              authentication |-> "", policy_id |-> EmptyId]

\* request bodies; a nil *bool is <<>>
ZeroBody == [name |-> "", dh_group |-> 0, encryption |-> "", key_lifetime |-> 0,
             pfs |-> <<>>, authentication |-> ""]

NoCreated == [set |-> FALSE, cloud |-> EmptyId, pid |-> EmptyId]

----------------------------------------------------------------------------
(* Helpers *)

IBMPISession(meta) == meta.sessOK

Contains(s) == \E i \in 1..Len(s) : s[i] = Sep

FirstSep(s) == CHOOSE i \in 1..Len(s) : s[i] = Sep /\ \A j \in 1..(i-1) : s[j] # Sep

RECURSIVE Split(_)
Split(s) ==
    IF Contains(s)
    THEN LET i == FirstSep(s)
         IN  <<SubSeq(s, 1, i - 1)>> \o Split(SubSeq(s, i + 1, Len(s)))
    ELSE <<s>>

\* idParts: the parts of the ID, or an error when it holds no separator
idParts(i) ==
    IF Contains(i) THEN [parts |-> Split(i), err |-> FALSE]
    ELSE [parts |-> <<>>, err |-> TRUE]

\* the two arguments in the wrong order
FormatId_swapped(cloudInstanceID, policyID) == policyID \o <<Sep>> \o cloudInstanceID

\* fmt.Sprintf("%s/%s", cloudInstanceID, *ipsecPolicy.ID)
FormatId(cloudInstanceID, policyID) == cloudInstanceID \o <<Sep>> \o policyID

\* a not-found answer taken for success
Failed_ignoreNotFound(outcome) == outcome = "error"

\* err != nil for a remote call
Failed(outcome) == outcome # "ok"

\* the schema default of the optional attribute
AuthenticationOf(cfg) ==
    IF cfg.authentication = <<>> THEN "none" ELSE cfg.authentication[1]

\* what d.Get returns while a configuration is applied over a prior state
Planned(cfg, prior) ==
    [cloud_instance_id |-> cfg.cloud_instance_id, name |-> cfg.name,
     dh_group |-> cfg.dh_group, encryption |-> cfg.encryption,
     key_lifetime |-> cfg.key_lifetime, pfs |-> cfg.pfs,
     authentication |-> AuthenticationOf(cfg), policy_id |-> prior.policy_id]

\* d.HasChange(k)
HasChange(prior, plan, k) == prior[k] # plan[k]

Changed(prior, plan) == {k \in PolicyFields : HasChange(prior, plan, k)}

\* d.GetOk: the value and whether it is not the zero value
GetOk(v) == [v |-> v, ok |-> v # ""]

Call(op, cloud, pid, body, r) ==
    [op |-> op, cloud |-> cloud, pid |-> pid, body |-> body,
     outcome |-> r.outcome, resp |-> r.policy]

Result(i, a, c, e) == [id |-> i, attrs |-> a, calls |-> c, err |-> e]

----------------------------------------------------------------------------
(* Handlers: each takes d (its ID and attributes), the provider meta and   *)
(* the responses of the remote calls it may issue, and yields d as the     *)
(* handler leaves it, the calls it issued and whether it returned an error *)

\* the d.Set of the authentication left out
SetFromPolicy_noAuthentication(a, p) ==
    [a EXCEPT !.policy_id = p.id, !.name = p.name, !.dh_group = p.dh_group,
              !.encryption = p.encryption, !.key_lifetime = p.key_lifetime,
              !.pfs = p.pfs]

\* the d.Set calls of Read
SetFromPolicy(a, p) ==
    [a EXCEPT !.policy_id = p.id, !.name = p.name, !.dh_group = p.dh_group,
              !.encryption = p.encryption, !.key_lifetime = p.key_lifetime,
              !.pfs = p.pfs, !.authentication = p.authentication]

\* Read that asks a second time when the get failed
resourceIBMPIIPSecPolicyRead_retry(idIn, attrsIn, meta, getR) ==
    IF ~IBMPISession(meta) THEN Result(idIn, attrsIn, <<>>, TRUE)
    ELSE LET parsed == idParts(idIn) IN
    IF parsed.err THEN Result(idIn, attrsIn, <<>>, TRUE)
    ELSE LET call == Call("get", parsed.parts[1], parsed.parts[2], ZeroBody, getR)
         IN  IF Failed(getR.outcome)
             THEN Result(idIn, attrsIn, <<call, call>>, TRUE)
             ELSE Result(idIn, SetFromPolicy(attrsIn, getR.policy), <<call>>, FALSE)

\* Read with the not-found branch of the source's FIXME comment enabled:
\* the ID is cleared and no error is returned
resourceIBMPIIPSecPolicyRead_notFoundClears(idIn, attrsIn, meta, getR) ==
    IF ~IBMPISession(meta) THEN Result(idIn, attrsIn, <<>>, TRUE)
    ELSE LET parsed == idParts(idIn) IN
    IF parsed.err THEN Result(idIn, attrsIn, <<>>, TRUE)
    ELSE LET call == Call("get", parsed.parts[1], parsed.parts[2], ZeroBody, getR)
         IN  IF getR.outcome = "notfound"
             THEN Result(EmptyId, attrsIn, <<call>>, FALSE)
             ELSE IF Failed(getR.outcome)
             THEN Result(idIn, attrsIn, <<call>>, TRUE)
             ELSE Result(idIn, SetFromPolicy(attrsIn, getR.policy), <<call>>, FALSE)

resourceIBMPIIPSecPolicyRead(idIn, attrsIn, meta, getR) ==
    IF ~IBMPISession(meta) THEN Result(idIn, attrsIn, <<>>, TRUE)
    ELSE LET parsed == idParts(idIn) IN
    IF parsed.err THEN Result(idIn, attrsIn, <<>>, TRUE)
    ELSE LET parts == parsed.parts
             cloudInstanceID == parts[1]
             policyID == parts[2]
             call == Call("get", cloudInstanceID, policyID, ZeroBody, getR)
         IN  IF Failed(getR.outcome)
             THEN Result(idIn, attrsIn, <<call>>, TRUE)
             ELSE Result(idIn, SetFromPolicy(attrsIn, getR.policy), <<call>>, FALSE)

\* the optional authentication never copied into the body
CreateBody_noAuthentication(plan) ==
    [name |-> plan.name, dh_group |-> plan.dh_group, encryption |-> plan.encryption,
     key_lifetime |-> plan.key_lifetime, pfs |-> <<plan.pfs>>,
     authentication |-> ""]

\* the models.IPSecPolicyCreate built by Create
CreateBody(plan) ==
    [name |-> plan.name, dh_group |-> plan.dh_group, encryption |-> plan.encryption,
     key_lifetime |-> plan.key_lifetime, pfs |-> <<plan.pfs>>,
     authentication |-> IF GetOk(plan.authentication).ok
                        THEN GetOk(plan.authentication).v ELSE ""]

resourceIBMPIIPSecPolicyCreate(plan, meta, createR, getR) ==
    IF ~IBMPISession(meta) THEN Result(EmptyId, plan, <<>>, TRUE)
    ELSE LET cloudInstanceID == plan.cloud_instance_id
             call == Call("create", cloudInstanceID, EmptyId, CreateBody(plan), createR)
         IN  IF Failed(createR.outcome)
             THEN Result(EmptyId, plan, <<call>>, TRUE)
             ELSE LET r == resourceIBMPIIPSecPolicyRead(
                               FormatId(cloudInstanceID, createR.policy.id),
                               plan, meta, getR)
                  IN  Result(r.id, r.attrs, <<call>> \o r.calls, r.err)

\* every attribute sent, changed or not
UpdateBody_sendAll(plan, changed) ==
    [name |-> plan.name, dh_group |-> plan.dh_group, encryption |-> plan.encryption,
     key_lifetime |-> plan.key_lifetime, pfs |-> <<plan.pfs>>,
     authentication |-> plan.authentication]

\* the models.IPSecPolicyUpdate built by Update: a field is set when its
\* attribute changed and keeps its zero value otherwise
UpdateBody(plan, changed) ==
    [name |-> IF "name" \in changed THEN plan.name ELSE "",
     dh_group |-> IF "dh_group" \in changed THEN plan.dh_group ELSE 0,
     encryption |-> IF "encryption" \in changed THEN plan.encryption ELSE "",
     key_lifetime |-> IF "key_lifetime" \in changed THEN plan.key_lifetime ELSE 0,
     pfs |-> IF "pfs" \in changed THEN <<plan.pfs>> ELSE <<>>,
     authentication |-> IF "authentication" \in changed THEN plan.authentication ELSE ""]

\* Update without the early return after a failed remote update
resourceIBMPIIPSecPolicyUpdate_readAnyway(idIn, prior, plan, meta, updateR, getR) ==
    IF ~IBMPISession(meta) THEN Result(idIn, plan, <<>>, TRUE)
    ELSE LET parsed == idParts(idIn) IN
    IF parsed.err THEN Result(idIn, plan, <<>>, TRUE)
    ELSE LET body == UpdateBody(plan, Changed(prior, plan))
             call == Call("update", parsed.parts[1], parsed.parts[2], body, updateR)
             r == resourceIBMPIIPSecPolicyRead(idIn, plan, meta, getR)
         IN  Result(r.id, r.attrs, <<call>> \o r.calls,
                    r.err \/ Failed(updateR.outcome))

resourceIBMPIIPSecPolicyUpdate(idIn, prior, plan, meta, updateR, getR) ==
    IF ~IBMPISession(meta) THEN Result(idIn, plan, <<>>, TRUE)
    ELSE LET parsed == idParts(idIn) IN
    IF parsed.err THEN Result(idIn, plan, <<>>, TRUE)
    ELSE LET parts == parsed.parts
             cloudInstanceID == parts[1]
             policyID == parts[2]
             body == UpdateBody(plan, Changed(prior, plan))
             call == Call("update", cloudInstanceID, policyID, body, updateR)
         IN  IF Failed(updateR.outcome)
             THEN Result(idIn, plan, <<call>>, TRUE)
             ELSE LET r == resourceIBMPIIPSecPolicyRead(idIn, plan, meta, getR)
                  IN  Result(r.id, r.attrs, <<call>> \o r.calls, r.err)

\* Delete with the not-found branch of the source's FIXME comment enabled
resourceIBMPIIPSecPolicyDelete_notFoundClears(idIn, attrsIn, meta, deleteR) ==
    IF ~IBMPISession(meta) THEN Result(idIn, attrsIn, <<>>, TRUE)
    ELSE LET parsed == idParts(idIn) IN
    IF parsed.err THEN Result(idIn, attrsIn, <<>>, TRUE)
    ELSE LET call == Call("delete", parsed.parts[1], parsed.parts[2], ZeroBody, deleteR)
         IN  IF deleteR.outcome = "notfound"
             THEN Result(EmptyId, attrsIn, <<call>>, FALSE)
             ELSE IF Failed(deleteR.outcome)
             THEN Result(idIn, attrsIn, <<call>>, TRUE)
             ELSE Result(EmptyId, attrsIn, <<call>>, FALSE)

resourceIBMPIIPSecPolicyDelete(idIn, attrsIn, meta, deleteR) ==
    IF ~IBMPISession(meta) THEN Result(idIn, attrsIn, <<>>, TRUE)
    ELSE LET parsed == idParts(idIn) IN
    IF parsed.err THEN Result(idIn, attrsIn, <<>>, TRUE)
    ELSE LET parts == parsed.parts
             cloudInstanceID == parts[1]
             policyID == parts[2]
             call == Call("delete", cloudInstanceID, policyID, ZeroBody, deleteR)
         IN  IF Failed(deleteR.outcome)
             THEN Result(idIn, attrsIn, <<call>>, TRUE)
             ELSE Result(EmptyId, attrsIn, <<call>>, FALSE)

----------------------------------------------------------------------------
(* The state machine: the host framework invokes one handler at a time     *)

Invocation(kind, meta, cfg, changed, priorId, r) ==
    [kind |-> kind, sessOK |-> meta.sessOK, cfg |-> cfg, changed |-> changed,
     priorId |-> priorId, err |-> r.err]

NoInvocation ==
    [kind |-> "none", sessOK |-> TRUE, cfg |-> ZeroConfig, changed |-> {},
     priorId |-> EmptyId, err |-> FALSE]

Init ==
    /\ id = EmptyId
    /\ attrs = ZeroAttrs
    /\ last = NoInvocation
    /\ calls = <<>>
    /\ created = NoCreated
    /\ allOK = FALSE

\* a new resource: d holds the configuration and no ID
Create ==
    /\ id = EmptyId
    /\ \E cfg \in Configs, meta \in Metas :
       \E createR \in ResponsesIf(IBMPISession(meta), CreateResponses) :
       \E getR \in ResponsesIf(~Failed(createR.outcome), GetResponses) :
         LET plan == Planned(cfg, ZeroAttrs)
             r == resourceIBMPIIPSecPolicyCreate(plan, meta, createR, getR)
             made == Len(r.calls) > 0 /\ r.calls[1].outcome = "ok"
         IN  /\ id' = r.id
             /\ attrs' = r.attrs
             /\ calls' = r.calls
             /\ last' = Invocation("Create", meta, cfg, {}, id, r)
             /\ created' = IF made
                           THEN [set |-> TRUE, cloud |-> cfg.cloud_instance_id,
                                 pid |-> createR.policy.id]
                           ELSE NoCreated
             /\ allOK' = ~r.err

\* a refresh of an existing resource
Read ==
    /\ id # EmptyId
    /\ LET parses == ~idParts(id).err IN
       \E meta \in Metas :
       \E getR \in ResponsesIf(IBMPISession(meta) /\ parses, GetResponses) :
         LET r == resourceIBMPIIPSecPolicyRead(id, attrs, meta, getR)
         IN  /\ id' = r.id
             /\ attrs' = r.attrs
             /\ calls' = r.calls
             /\ last' = Invocation("Read", meta, ZeroConfig, {}, id, r)
             /\ created' = created
             /\ allOK' = (allOK /\ ~r.err)

\* a changed configuration applied in place: no attribute forces a new
\* resource, so any difference reaches Update
Update ==
    /\ id # EmptyId
    /\ LET parses == ~idParts(id).err IN
       \E cfg \in Configs, meta \in Metas :
       \E updateR \in ResponsesIf(IBMPISession(meta) /\ parses, PlainResponses) :
       \E getR \in ResponsesIf(~Failed(updateR.outcome), GetResponses) :
         LET plan == Planned(cfg, attrs)
             r == resourceIBMPIIPSecPolicyUpdate(id, attrs, plan, meta, updateR, getR)
         IN  /\ plan # attrs
             /\ id' = r.id
             /\ attrs' = r.attrs
             /\ calls' = r.calls
             /\ last' = Invocation("Update", meta, cfg, Changed(attrs, plan), id, r)
             /\ created' = created
             /\ allOK' = (allOK /\ ~r.err)

Delete ==
    /\ id # EmptyId
    /\ LET parses == ~idParts(id).err IN
       \E meta \in Metas :
       \E deleteR \in ResponsesIf(IBMPISession(meta) /\ parses, PlainResponses) :
         LET r == resourceIBMPIIPSecPolicyDelete(id, attrs, meta, deleteR)
         IN  /\ id' = r.id
             /\ attrs' = r.attrs
             /\ calls' = r.calls
             /\ last' = Invocation("Delete", meta, ZeroConfig, {}, id, r)
             /\ created' = created
             /\ allOK' = FALSE

\* the default importer: d gets the ID the user gave and nothing else
Import ==
    /\ id = EmptyId
    /\ \E i \in ImportIds :
         /\ id' = i
         /\ attrs' = ZeroAttrs
         /\ calls' = <<>>
         /\ last' = [NoInvocation EXCEPT !.kind = "Import"]
         /\ created' = NoCreated
         /\ allOK' = FALSE

Next == Create \/ Read \/ Update \/ Delete \/ Import

Spec == Init /\ [][Next]_vars

----------------------------------------------------------------------------
(* Properties *)

Lifecycle == {"Create", "Read", "Update", "Delete"}

HasSep(s) == \E i \in 1..Len(s) : s[i] = "/"

\* the resource ID i names policy pid of cloud instance cloud: these are its
\* first two parts
IdNames(i, cloud, pid) ==
    /\ ~HasSep(cloud) /\ ~HasSep(pid)
    /\ \/ i = cloud \o <<"/">> \o pid
       \/ \E rest \in {SubSeq(i, j, Len(i)) : j \in 1..(Len(i) + 1)} :
             i = cloud \o <<"/">> \o pid \o <<"/">> \o rest

\* the ID the invocation parsed held no separator
ParseFailed == last.kind \in {"Read", "Update", "Delete"} /\ ~HasSep(last.priorId)

SomeCallFailed == \E i \in 1..Len(calls) : calls[i].outcome # "ok"

\* the value the configuration of the last invocation gives an attribute
Configured(k) ==
    IF k = "authentication"
    THEN (IF last.cfg.authentication = <<>> THEN "none" ELSE last.cfg.authentication[1])
    ELSE last.cfg[k]

\* C1: after a successful Read, alone or at the end of Create and Update,
\* the last call was a get for the policy the resource ID names, and the
\* policy id, name, DH group, encryption, key lifetime, PFS and
\* authentication held locally are those of the policy it returned.
C1_LocalEqualsRemote ==
    (last.kind \in {"Create", "Read", "Update"} /\ ~last.err) =>
        /\ Len(calls) >= 1
        /\ LET g == calls[Len(calls)]
           IN  /\ g.op = "get" /\ g.outcome = "ok"
               /\ IdNames(id, g.cloud, g.pid)
               /\ attrs.policy_id = g.resp.id
               /\ attrs.name = g.resp.name
               /\ attrs.dh_group = g.resp.dh_group
               /\ attrs.encryption = g.resp.encryption
               /\ attrs.key_lifetime = g.resp.key_lifetime
               /\ attrs.pfs = g.resp.pfs
               /\ attrs.authentication = g.resp.authentication

\* an Update succeeded and the remote returned values other than the
\* configured ones
C1_Witness ==
    /\ last.kind = "Update" /\ ~last.err /\ Len(calls) = 2
    /\ calls[2].resp.name # last.cfg.name
    /\ calls[2].resp.authentication # Configured("authentication")
    /\ attrs.name = calls[2].resp.name

C3_ErrorsPassThrough ==
    last.kind \in Lifecycle =>
        /\ last.err <=> (~last.sessOK \/ ParseFailed \/ SomeCallFailed)
        /\ (~last.sessOK \/ ParseFailed) => calls = <<>>

\* an Update whose remote update succeeded and whose get was answered
\* not-found returned an error
C3_Witness ==
    /\ last.kind = "Update" /\ last.sessOK /\ Len(calls) = 2
    /\ calls[1].outcome = "ok" /\ calls[2].outcome = "notfound" /\ last.err

\* C4 as stated: every lifecycle operation whose session acquisition and ID
\* parsing succeed issues exactly one remote request.
C4_SingleCall ==
    (last.kind \in Lifecycle /\ last.sessOK /\ ~ParseFailed) => Len(calls) = 1

\* C4 amended: Read and Delete issue exactly one request; Create and Update
\* issue exactly one mutating request and, only when it succeeded, exactly
\* one get after it; nothing is retried.
C4_CallCount ==
    (last.kind \in Lifecycle /\ last.sessOK /\ ~ParseFailed) =>
        /\ last.kind \in {"Read", "Delete"} => Len(calls) = 1
        /\ last.kind \in {"Create", "Update"} =>
              /\ Len(calls) >= 1
              /\ Len(calls) = IF calls[1].outcome = "ok" THEN 2 ELSE 1

\* a Create issued two requests
C4_Witness ==
    last.kind = "Create" /\ Len(calls) = 2 /\ ~last.err

\* C5: a Create whose session was acquired sends one create request,
\* addressed to the configured cloud instance, whose name, DH group,
\* encryption, key lifetime and PFS are the configured ones and whose
\* authentication is the configured one, or "none" when none is configured.
C5_CreateMapsFields ==
    (last.kind = "Create" /\ last.sessOK) =>
        /\ Len(calls) >= 1
        /\ calls[1].op = "create"
        /\ calls[1].cloud = last.cfg.cloud_instance_id
        /\ calls[1].body.name = last.cfg.name
        /\ calls[1].body.dh_group = last.cfg.dh_group
        /\ calls[1].body.encryption = last.cfg.encryption
        /\ calls[1].body.key_lifetime = last.cfg.key_lifetime
        /\ calls[1].body.pfs = <<last.cfg.pfs>>
        /\ calls[1].body.authentication =
              IF last.cfg.authentication = <<>> THEN "none"
              ELSE last.cfg.authentication[1]

\* a Create without a configured authentication sent "none"
C5_Witness ==
    /\ last.kind = "Create" /\ Len(calls) >= 1
    /\ last.cfg.authentication = <<>>
    /\ calls[1].body.authentication = "none"

\* C6: the remote create is issued only by Create, the update only by
\* Update, the delete only by Delete, the get only by Read, or by Create and
\* Update as their second call after their own call succeeded.
C6_CallsMatchOperation ==
    \A i \in 1..Len(calls) :
        /\ calls[i].op = "create" => last.kind = "Create" /\ i = 1
        /\ calls[i].op = "update" => last.kind = "Update" /\ i = 1
        /\ calls[i].op = "delete" => last.kind = "Delete" /\ i = 1
        /\ calls[i].op = "get" =>
              \/ last.kind = "Read" /\ i = 1
              \/ /\ last.kind \in {"Create", "Update"}
                 /\ i = 2
                 /\ calls[1].op = (IF last.kind = "Create" THEN "create" ELSE "update")
                 /\ calls[1].outcome = "ok"

\* an Update issued its update and then its get
C6_Witness ==
    /\ last.kind = "Update" /\ Len(calls) = 2
    /\ calls[1].op = "update" /\ calls[2].op = "get"

\* C7: the request of an Update carries, for each of name, DH group,
\* encryption, key lifetime, PFS and authentication, the new configured
\* value when the attribute changed and the unset value when it did not; it
\* is addressed to the cloud instance and policy ID of the resource ID, and
\* Update leaves the resource ID as it was.
C7_UpdateSendsChanges ==
    last.kind = "Update" =>
        /\ id = last.priorId
        /\ Len(calls) >= 1 =>
              /\ calls[1].op = "update"
              /\ IdNames(id, calls[1].cloud, calls[1].pid)
              /\ \A k \in PolicyFields :
                    calls[1].body[k] =
                        IF k \in last.changed
                        THEN (IF k = "pfs" THEN <<Configured(k)>> ELSE Configured(k))
                        ELSE ZeroBody[k]

\* an Update where only the PFS changed sent the PFS and nothing else
C7_Witness ==
    /\ last.kind = "Update" /\ Len(calls) >= 1
    /\ last.changed = {"pfs"}
    /\ calls[1].body.pfs = <<TRUE>>
    /\ calls[1].body.name = ""

\* C8: a Delete clears the resource ID when its remote delete succeeded and
\* returns no error; any other Delete returns an error and leaves the ID and
\* the attributes as they were.
C8_DeleteClearsOnSuccess ==
    [][last'.kind = "Delete" =>
         IF Len(calls') = 1 /\ calls'[1].op = "delete" /\ calls'[1].outcome = "ok"
         THEN id' = EmptyId /\ ~last'.err
         ELSE id' = id /\ attrs' = attrs /\ last'.err]_vars

\* a Delete answered not-found returned an error and kept the ID
C8_Witness ==
    /\ last.kind = "Delete" /\ Len(calls) = 1
    /\ calls[1].outcome = "notfound" /\ last.err /\ id # EmptyId

\* C9 as stated: after successful Create, Update and Read operations only,
\* the cloud-instance part of the resource ID is the cloud instance
\* attribute held locally.
C9_CloudMatchesId ==
    (allOK /\ id # EmptyId) =>
        \E rest \in {SubSeq(id, j, Len(id)) : j \in 1..(Len(id) + 1)} :
            id = attrs.cloud_instance_id \o <<"/">> \o rest

\* C10: at the end of Create the ID is set exactly when the remote create
\* succeeded, to the composite of the configured cloud instance and the
\* returned policy ID, also when the Read that follows failed; a failed Read
\* leaves the ID as it was.
C10_CreatedIsTracked ==
    /\ last.kind = "Create" =>
          IF Len(calls) >= 1 /\ calls[1].op = "create" /\ calls[1].outcome = "ok"
          THEN id = last.cfg.cloud_instance_id \o <<"/">> \o calls[1].resp.id
          ELSE id = EmptyId
    /\ (last.kind = "Read" /\ last.err) => id = last.priorId

\* a Create returned an error after its remote create succeeded, the get
\* having answered not-found, and the ID is set
C10_Witness ==
    /\ last.kind = "Create" /\ last.err /\ Len(calls) = 2
    /\ calls[2].outcome = "notfound" /\ id # EmptyId

====
